---- MODULE Spec2Model ----
(***************************************************************************)
(* The two viewer windows of the repository, CameraApp (colorcontrast.py)  *)
(* and the demo application's MainWindow (demoapp/contrastwindow.py): the  *)
(* sample-point collection, the click and reset handlers, the timer-driven *)
(* update_frame and the histogram computation update_histogram.            *)
(*                                                                         *)
(* Python indices are kept 0-based: a frame's pixel array is a function    *)
(* over 0..h-1 and 0..w-1.  A histogram is a sequence of NBins counts, the *)
(* count of bin b at index b+1.                                            *)
(*                                                                         *)
(* The ColorCollector window (demoapp/colorcollector.py) is a third window *)
(* with a state of its own: the samples get_colors_at_cursor collects and  *)
(* the labels select_color sets.                                           *)
(***************************************************************************)
EXTENDS Integers, Sequences, FiniteSets

VARIABLES
    app,               \* which window class was constructed
    points,            \* self.points
    is_streaming,      \* self.grabber.is_streaming
    curve_r,           \* data of self.curve_r (<<>> until the first setData)
    curve_g,           \* data of self.curve_g
    curve_b,           \* data of self.curve_b
    pixmap,            \* pixmap of self.image_label (NoPixmap until the first setPixmap)
    curr_image_array,  \* MainWindow.curr_image_array
    outq,              \* the QueueSink's output queue of filled buffers (MainWindow)
    pending,           \* frames_queued notifications the SDK has not delivered yet
    writers,           \* observation: the callbacks that have assigned self.curr_image_array
    poppers,           \* observation: the callbacks that have popped a buffer from self.sink
    held,              \* buffers popped from the sink and not given back to it
    colors,            \* ColorCollector.colors
    labels,            \* what select_color has set on each of ColorCollector's labels
    calls,             \* observation: get_colors_at_cursor calls since colors was last empty
    since_reset,       \* observation: the clicks made since the last call of reset_points
    reset_seen,        \* observation: reset_points has been called at least once
    last               \* observation: the handler that ran last and how it ended

vars == <<app, points, is_streaming, curve_r, curve_g, curve_b, pixmap,
          curr_image_array, outq, pending, writers, poppers, held, since_reset,
          colors, labels, calls, reset_seen, last>>

\* the state of the ColorCollector window
collector == <<colors, labels, calls>>

\* the state of the two viewer windows
viewer == <<points, is_streaming, curve_r, curve_g, curve_b, pixmap,
            curr_image_array, outq, pending, writers, poppers, held,
            since_reset, reset_seen>>

curves == <<curve_r, curve_g, curve_b>>

-----------------------------------------------------------------------------
(* Bounds of the model *)

\* height of the frames the viewer's ticks see; their width is ViewSide + 2
ViewSide == 3

\* height of the frames the histogram computation is applied to on its own;
\* their width is HistSide + 2
HistSide == 11

\* number of buffers the sink owns (min_buffers_required + 2, decided by the SDK)
MaxQueue == 2

-----------------------------------------------------------------------------
(* Program constants *)

region_size == 5

NBins == 256

RangeLo == 0

RangeHi == 255

Apps == {"CameraApp", "MainWindow"}

-----------------------------------------------------------------------------
(* Frames *)

ViewH == ViewSide

ViewW == ViewSide + 2

HistH == HistSide

HistW == HistSide + 2

\* frame.to_numpy() / buf.numpy_copy() of an RGB frame: shape (h, w, 3), uint8
MkFrame(h, w, seed) ==
    [ndim |-> 3, h |-> h, w |-> w,
     px |-> [y \in 0..(h - 1) |-> [x \in 0..(w - 1) |->
                << (seed + 7 * x + 31 * y) % 256,
                   (3 * seed + 11 * x + 5 * y + 85) % 256,
                   255 - ((seed + 13 * x + 17 * y) % 256) >>]]]

\* an array that is not 3-dimensional: shape (h, w)
MkFrame2D(h, w, seed) ==
    [ndim |-> 2, h |-> h, w |-> w,
     px |-> [y \in 0..(h - 1) |-> [x \in 0..(w - 1) |-> (seed + x + y) % 256]]]

\* the frames a tick of the viewer can see
Frames3D == {MkFrame(ViewH, ViewW, 0), MkFrame(ViewH, ViewW, 203)}

Frames2D == {MkFrame2D(ViewH, ViewW, 9)}

Frames == Frames3D \cup Frames2D

\* the frames the histogram computation is applied to on its own
HistFrames ==
    {MkFrame(HistH, HistW, s) : s \in {0, 97, 203}} \cup {MkFrame(3, 4, 250)}

\* a QPoint
Pt(x, y) == [x |-> x, y |-> y]

\* click positions of the viewer: widget coordinates, never negative
ClickPoints == {Pt(0, 0), Pt(ViewW + 1, ViewH - 1)}

\* click positions the histogram computation is applied to on its own: at the
\* origin, inside, on the last pixel, on and past the far edge, far outside
HistClickPoints ==
    {Pt(0, 0), Pt(6, 5), Pt(HistW - 1, HistH - 1), Pt(HistW, HistH),
     Pt(HistW + 2, 3), Pt(2, HistH + 5)}

-----------------------------------------------------------------------------
(* update_histogram *)

Max(a, b) == IF a >= b THEN a ELSE b

Min(a, b) == IF a <= b THEN a ELSE b

\* a bound of a slice taken as it is, not cut to the axis
SliceBoundUnclamped(i, n) == IF i < 0 THEN Max(i + n, 0) ELSE i

\* the index Python resolves one bound of a slice to, for an axis of length n
SliceBound(i, n) == IF i < 0 THEN Max(i + n, 0) ELSE Min(i, n)

\* the indices a[lo:hi] selects on an axis of length n
SliceIdx(lo, hi, n) == SliceBound(lo, n)..(SliceBound(hi, n) - 1)

\* img[max(0, y - region_size):y + region_size, max(0, x - region_size):x + region_size]
Region(img, pt) ==
    [rows |-> SliceIdx(Max(0, pt.y - region_size), pt.y + region_size, img.h),
     cols |-> SliceIdx(Max(0, pt.x - region_size), pt.x + region_size, img.w)]

\* an index outside the array raises IndexError
RegionFaults(img, reg) ==
    \/ \E y \in reg.rows : y \notin 0..(img.h - 1)
    \/ \E x \in reg.cols : x \notin 0..(img.w - 1)

SetMin(S) == CHOOSE m \in S : \A k \in S : m <= k

\* region[:, :, c].flatten(): the channel c of the region, row by row
Flatten(img, reg, c) ==
    IF reg.rows = {} \/ reg.cols = {} THEN <<>>
    ELSE LET nc == Cardinality(reg.cols)
             y0 == SetMin(reg.rows)
             x0 == SetMin(reg.cols)
         IN [k \in 1..(Cardinality(reg.rows) * nc) |->
                img.px[y0 + ((k - 1) \div nc)][x0 + ((k - 1) % nc)][c + 1]]

\* chans[c] assigned, not extended: only the last point's region is kept
ChanLastOnly(img, pts, c) ==
    IF pts = <<>> THEN <<>> ELSE Flatten(img, Region(img, pts[Len(pts)]), c)

RECURSIVE Chan(_, _, _)
\* chans[c] after the loop over the points: the regions' values, appended point by point
Chan(img, pts, c) ==
    IF pts = <<>> THEN <<>>
    ELSE Chan(img, SubSeq(pts, 1, Len(pts) - 1), c)
            \o Flatten(img, Region(img, pts[Len(pts)]), c)

\* the bin index with the number of bins and the width of the range exchanged
BinIndexSwapped(v) ==
    LET f == ((v - RangeLo) * (RangeHi - RangeLo)) \div NBins
    IN IF f = NBins THEN NBins - 1 ELSE f

\* the bin np.histogram(a, bins=NBins, range=(RangeLo, RangeHi)) counts v in:
\* floor((v - lo) / (hi - lo) * bins), the right edge going to the last bin
BinIndex(v) ==
    LET f == ((v - RangeLo) * NBins) \div (RangeHi - RangeLo)
    IN IF f = NBins THEN NBins - 1 ELSE f

\* the range taken as half-open: the value RangeHi is dropped
InRangeHalfOpen(v) == v >= RangeLo /\ v < RangeHi

\* np.histogram keeps the values inside the range only
InRange(v) == v >= RangeLo /\ v <= RangeHi

\* one value counted into the counts h
Count(h, v) == IF InRange(v) THEN [h EXCEPT ![BinIndex(v) + 1] = @ + 1] ELSE h

RECURSIVE HistAcc(_, _, _, _)
\* the counts h after the values a[lo..hi] were counted, in their order.  The
\* range is split in two to keep the evaluation shallow, and the left half's
\* counts are bound as a value before the right half is counted.
HistAcc(a, lo, hi, h) ==
    IF lo > hi THEN h
    ELSE IF lo = hi THEN Count(h, a[lo])
    ELSE LET mid == (lo + hi) \div 2
         IN CHOOSE res \in {HistAcc(a, mid + 1, hi, left) :
                               left \in {HistAcc(a, lo, mid, h)}} : TRUE

\* np.histogram(a, bins=256, range=(0, 255))[0]
Histogram(a) ==
    CHOOSE res \in {HistAcc(v, 1, Len(v), [b \in 1..NBins |-> 0]) : v \in {a}} : TRUE

\* the data update_histogram hands to setData of the three curves, or the fault
update_histogram(img, pts) ==
    IF \E i \in 1..Len(pts) : RegionFaults(img, Region(img, pts[i]))
    THEN [fault |-> TRUE, r |-> <<>>, g |-> <<>>, b |-> <<>>]
    ELSE [fault |-> FALSE,
          r |-> Histogram(Chan(img, pts, 0)),
          g |-> Histogram(Chan(img, pts, 1)),
          b |-> Histogram(Chan(img, pts, 2))]

-----------------------------------------------------------------------------
(* The handlers *)

NoData == <<>>

\* Python's None in the place of a frame or an array
None == [ndim |-> 0]

\* the label before its first setPixmap
NoPixmap == [img |-> None, marks |-> <<>>]

Ended(op, exit, hist) == [op |-> op, exit |-> exit, hist |-> hist]

\* CameraApp.__init__ assigns self.image_label; MainWindow.createUI never does
HasImageLabel(a) == a = "CameraApp"

\* on_click with the test off by one: a click on a full collection appends
ClickAppendsOffByOne(pts) == Len(pts) <= 3

\* the condition under which on_click appends the clicked point
ClickAppends(pts) == Len(pts) < 3

\* reset_points dropping the oldest point only (a pop(0) in the place of clear)
ResetDropsOldest(pts) == IF pts = <<>> THEN <<>> ELSE Tail(pts)

\* reset_points leaving the list as it is
ResetKeepsPoints(pts) == pts

\* self.points after reset_points
reset_points(pts) == <<>>

\* update_frame calling update_histogram as soon as one point exists
HistGuardAnyPoint(pts) == Len(pts) >= 1

\* the condition under which update_frame calls update_histogram
HistGuard(pts) == Len(pts) = 3

\* the loops over self.points written so that they take each point off the list
ForEachPointDraining(pts) == <<>>

\* self.points after the loops "for pt in self.points" of update_frame and
\* update_histogram: they read each point and leave the list as it is
ForEachPoint(pts) == pts

\* update_frame returns early on an array that is not 3-dimensional
NdimGuard(img) == img.ndim # 3

\* the three labels select_color is called with
Labels == {"background_label", "first_color_label", "second_color_label"}

\* a label as __init__ leaves it, and as select_color sets its text and its
\* style sheet from the three numbers
Unselected == [selected |-> FALSE, rgb |-> <<0, 0, 0>>]

Selected(red, green, blue) == [selected |-> TRUE, rgb |-> <<red, green, blue>>]

NoLabels == [l \in Labels |-> Unselected]

Init ==
    /\ app \in Apps
    /\ points = <<>>
    /\ is_streaming = FALSE
    /\ curve_r = NoData
    /\ curve_g = NoData
    /\ curve_b = NoData
    /\ pixmap = NoPixmap
    /\ curr_image_array = None
    /\ outq = <<>>
    /\ pending = 0
    /\ writers = {}
    /\ poppers = {}
    /\ held = 0
    /\ colors = <<>>
    /\ labels = NoLabels
    /\ calls = 0
    /\ since_reset = <<>>
    /\ reset_seen = FALSE
    /\ last = Ended("__init__", "return", -1)

\* mousePressEvent of the image widget
on_click(pt) ==
    /\ IF ClickAppends(points)
       THEN /\ points' = Append(points, pt)
            /\ since_reset' = Append(since_reset, pt)
            /\ UNCHANGED reset_seen
       ELSE /\ points' = reset_points(points)
            /\ since_reset' = <<>>
            /\ reset_seen' = TRUE
    /\ last' = Ended("on_click", "return", -1)
    /\ UNCHANGED collector
    /\ UNCHANGED <<app, is_streaming, curve_r, curve_g, curve_b, pixmap,
                   curr_image_array, outq, pending, writers, poppers, held>>

\* the "Reset Points" button
reset_click ==
    /\ points' = reset_points(points)
    /\ since_reset' = <<>>
    /\ reset_seen' = TRUE
    /\ last' = Ended("reset_points", "return", -1)
    /\ UNCHANGED collector
    /\ UNCHANGED <<app, is_streaming, curve_r, curve_g, curve_b, pixmap,
                   curr_image_array, outq, pending, writers, poppers, held>>

\* CameraApp.select_camera with the dialog accepted: stream_setup starts the
\* stream, or fails and leaves the grabber stopped
select_camera ==
    /\ app = "CameraApp"
    /\ \E ok \in BOOLEAN : is_streaming' = ok
    /\ last' = Ended("select_camera", "return", -1)
    /\ UNCHANGED collector
    /\ UNCHANGED <<app, points, curve_r, curve_g, curve_b, pixmap,
                   curr_image_array, outq, pending, writers, poppers, held,
                   since_reset, reset_seen>>

\* MainWindow.startStopStream on a valid device; stream_setup connects the sink,
\* whose listener allocates and queues a fresh set of buffers
startStopStream ==
    /\ app = "MainWindow"
    /\ IF is_streaming
       THEN /\ is_streaming' = FALSE
            /\ UNCHANGED <<outq, pending, held>>
       ELSE /\ is_streaming' = TRUE
            /\ outq' = <<>>
            /\ pending' = 0
            /\ held' = 0
    /\ last' = Ended("startStopStream", "return", -1)
    /\ UNCHANGED collector
    /\ UNCHANGED <<app, points, curve_r, curve_g, curve_b, pixmap,
                   curr_image_array, writers, poppers, since_reset, reset_seen>>

\* the SDK fills a buffer, puts it on the sink's output queue and owes the
\* listener one frames_queued call
DeliverFrame(f) ==
    /\ app = "MainWindow"
    /\ is_streaming
    /\ Len(outq) + held < MaxQueue
    /\ pending < MaxQueue
    /\ outq' = Append(outq, f)
    /\ pending' = pending + 1
    /\ UNCHANGED collector
    /\ UNCHANGED <<app, points, is_streaming, curve_r, curve_g, curve_b, pixmap,
                   curr_image_array, writers, poppers, held, since_reset,
                   reset_seen, last>>

\* Listener.frames_queued, on the SDK's thread: with no buffer on the queue
\* pop_output_buffer raises, or returns None and buf.numpy_copy() raises; the
\* buffer it pops is handed to connect_chunkdata and not released
frames_queued ==
    /\ app = "MainWindow"
    /\ pending > 0
    /\ pending' = pending - 1
    /\ IF outq = <<>>
       THEN /\ last' = Ended("frames_queued", "raise", -1)
            /\ UNCHANGED <<outq, curr_image_array, writers, poppers, held>>
       ELSE /\ outq' = Tail(outq)
            /\ poppers' = poppers \cup {"frames_queued"}
            /\ curr_image_array' = Head(outq)
            /\ writers' = writers \cup {"frames_queued"}
            /\ held' = held + 1                  \* popped, no release
            /\ last' = Ended("frames_queued", "return", -1)
    /\ UNCHANGED collector
    /\ UNCHANGED <<app, points, is_streaming, curve_r, curve_g, curve_b, pixmap,
                   since_reset, reset_seen>>

\* the common tail of update_frame: the pixmap with the markers, then the histograms
ShowFrame(img) ==
    IF ~HasImageLabel(app)
    THEN /\ last' = Ended("update_frame", "raise", -1)
         /\ UNCHANGED <<points, pixmap, curve_r, curve_g, curve_b>>
    ELSE /\ pixmap' = [img |-> img, marks |-> points]
         /\ points' = ForEachPoint(points)
         /\ IF HistGuard(points)
            THEN \E res \in {update_histogram(img, points)} :
                    IF res.fault
                    THEN /\ last' = Ended("update_frame", "raise", Len(points))
                         /\ UNCHANGED <<curve_r, curve_g, curve_b>>
                    ELSE /\ curve_r' = res.r
                         /\ curve_g' = res.g
                         /\ curve_b' = res.b
                         /\ last' = Ended("update_frame", "return", Len(points))
            ELSE /\ last' = Ended("update_frame", "return", -1)
                 /\ UNCHANGED <<curve_r, curve_g, curve_b>>

\* CameraApp.update_frame; frame is what snap_image returns on this tick
CameraApp_update_frame(frame) ==
    /\ app = "CameraApp"
    /\ IF ~is_streaming
       THEN /\ last' = Ended("update_frame", "not_streaming", -1)
            /\ UNCHANGED <<points, pixmap, curve_r, curve_g, curve_b>>
       ELSE IF frame = None
       THEN /\ last' = Ended("update_frame", "no_frame", -1)
            /\ UNCHANGED <<points, pixmap, curve_r, curve_g, curve_b>>
       ELSE IF NdimGuard(frame)
       THEN /\ last' = Ended("update_frame", "ndim", -1)
            /\ UNCHANGED <<points, pixmap, curve_r, curve_g, curve_b>>
       ELSE ShowFrame(frame)
    /\ UNCHANGED collector
    /\ UNCHANGED <<app, is_streaming, curr_image_array, outq, pending,
                   writers, poppers, held, since_reset, reset_seen>>

\* MainWindow.update_frame: the frame is the buffer popped from the sink; with no
\* buffer on the queue pop_output_buffer raises, or returns None and
\* buf.numpy_copy() raises
MainWindow_update_frame ==
    /\ app = "MainWindow"
    /\ IF ~is_streaming
       THEN /\ last' = Ended("update_frame", "not_streaming", -1)
            /\ UNCHANGED <<points, outq, curr_image_array, writers, poppers,
                           held, pixmap, curve_r, curve_g, curve_b>>
       ELSE IF outq = <<>>
       THEN /\ last' = Ended("update_frame", "raise", -1)
            /\ UNCHANGED <<points, outq, curr_image_array, writers, poppers,
                           held, pixmap, curve_r, curve_g, curve_b>>
       ELSE /\ outq' = Tail(outq)
            /\ poppers' = poppers \cup {"update_frame"}
            /\ curr_image_array' = Head(outq)
            /\ writers' = writers \cup {"update_frame"}
            /\ IF NdimGuard(Head(outq))
               THEN /\ held' = held + 1          \* popped, return without release
                    /\ last' = Ended("update_frame", "ndim", -1)
                    /\ UNCHANGED <<points, pixmap, curve_r, curve_g, curve_b>>
               ELSE /\ held' = (held + 1) - 1    \* popped, then buf.release()
                    /\ ShowFrame(Head(outq))
    /\ UNCHANGED collector
    /\ UNCHANGED <<app, is_streaming, pending, since_reset, reset_seen>>

\* a buffer that was popped and never released comes back to the sink when
\* nothing refers to it any more
ReclaimBuffer ==
    /\ app = "MainWindow"
    /\ held > 0
    /\ held' = held - 1
    /\ UNCHANGED collector
    /\ UNCHANGED <<app, points, is_streaming, curve_r, curve_g, curve_b, pixmap,
                   curr_image_array, outq, pending, writers, poppers,
                   since_reset, reset_seen, last>>

Next ==
    \/ \E pt \in ClickPoints : on_click(pt)
    \/ reset_click
    \/ select_camera
    \/ startStopStream
    \/ \E f \in Frames : DeliverFrame(f)
    \/ frames_queued
    \/ \E frame \in Frames \cup {None} : CameraApp_update_frame(frame)
    \/ MainWindow_update_frame
    \/ ReclaimBuffer

Spec == Init /\ [][Next]_vars

-----------------------------------------------------------------------------
(* update_histogram on its own: every frame of HistFrames with every list of *)
(* three points of HistClickPoints, from the call in update_frame            *)

\* the img argument of the call: CameraApp has just set it as the label's
\* pixmap, MainWindow took it from self.curr_image_array
HistArg == IF app = "CameraApp" THEN pixmap.img ELSE curr_image_array

HistInit ==
    /\ app \in Apps
    /\ points \in [1..3 -> HistClickPoints]
    /\ is_streaming = TRUE
    /\ curve_r = NoData
    /\ curve_g = NoData
    /\ curve_b = NoData
    /\ \E f \in HistFrames :
          IF app = "CameraApp"
          THEN pixmap = [img |-> f, marks |-> points] /\ curr_image_array = None
          ELSE pixmap = NoPixmap /\ curr_image_array = f
    /\ outq = <<>>
    /\ pending = 0
    /\ writers = {}
    /\ poppers = {}
    /\ held = 0
    /\ colors = <<>>
    /\ labels = NoLabels
    /\ calls = 0
    /\ since_reset = points
    /\ reset_seen = FALSE
    /\ last = Ended("update_frame", "call", -1)

\* self.update_histogram(img) and the return of update_frame
HistCall ==
    /\ last.exit = "call"
    /\ \E res \in {update_histogram(HistArg, points)} :
          IF res.fault
          THEN /\ last' = Ended("update_frame", "raise", Len(points))
               /\ UNCHANGED <<curve_r, curve_g, curve_b>>
          ELSE /\ curve_r' = res.r
               /\ curve_g' = res.g
               /\ curve_b' = res.b
               /\ last' = Ended("update_frame", "return", Len(points))
    /\ UNCHANGED collector
    /\ UNCHANGED <<app, points, is_streaming, pixmap, curr_image_array, outq,
                   pending, writers, poppers, held, since_reset, reset_seen>>

HistNext == HistCall

HistSpec == HistInit /\ [][HistNext]_vars

-----------------------------------------------------------------------------
(* Steps and results the properties speak of *)

ClickStep(pt) == on_click(pt)

TickStep ==
    \/ \E frame \in Frames \cup {None} : CameraApp_update_frame(frame)
    \/ MainWindow_update_frame

\* the three curves hold the histograms of frame f at the points pts
CurvesOf(f, pts) ==
    \E res \in {update_histogram(f, pts)} :
        /\ ~res.fault
        /\ curve_r' = res.r
        /\ curve_g' = res.g
        /\ curve_b' = res.b

-----------------------------------------------------------------------------
(* Properties of the viewer, under Spec *)

\* C1: in every reachable state the sample-point collection holds at most 3
\* points.
C1_AtMostThreePoints == Len(points) <= 3

\* a click has filled the collection
C1_Witness == Len(points) = 3 /\ last.op = "on_click"

\* C2: a click on a collection of 3 points leaves it empty (the clicked point
\* is not appended); a click on fewer than 3 points appends exactly the
\* clicked point at the end and keeps the earlier points in their order.
C2_ClickAppendsOrClears ==
    [][\A pt \in ClickPoints :
          ClickStep(pt) =>
             IF Len(points) = 3
             THEN points' = <<>>
             ELSE Len(points) < 3 /\ points' = Append(points, pt)]_vars

\* the click after a full collection has emptied it
C2_Witness == last.op = "on_click" /\ points = <<>> /\ reset_seen

\* C3: update_histogram is only ever invoked with exactly 3 points, and a tick
\* on which the collection holds 0, 1 or 2 points leaves the three curves as
\* they were.
C3_HistogramOnlyWithThree ==
    [][TickStep =>
          /\ last'.hist \in {-1, 3}
          /\ Len(points) # 3 => (last'.hist = -1 /\ curves' = curves)]_vars

\* a tick showed a frame with one or two markers and kept the earlier curves
C3_Witness ==
    /\ last = Ended("update_frame", "return", -1)
    /\ Len(points) \in {1, 2}
    /\ pixmap.marks = points
    /\ curve_r # NoData

\* C4: in both windows a tick with the grabber streaming, a 3-channel frame
\* available and exactly 3 points reaches update_histogram and replaces the
\* three curves by the histograms of that tick's frame.
C4_TickComputesHistograms ==
    [][/\ \A f \in Frames3D :
             (is_streaming /\ Len(points) = 3 /\ CameraApp_update_frame(f))
                => (last' = Ended("update_frame", "return", 3) /\ CurvesOf(f, points))
       /\ (is_streaming /\ Len(points) = 3 /\ outq # <<>> /\ Head(outq).ndim = 3
             /\ MainWindow_update_frame)
                => (last' = Ended("update_frame", "return", 3)
                      /\ CurvesOf(Head(outq), points))]_vars

\* C9: a histogram computation uses exactly the 3 points clicked since the
\* last reset (explicit, or automatic on the click after 3 points): none
\* happens before 3 such clicks, no earlier point and not the click that
\* triggered the reset takes part.
C9_FreshPointsAfterReset ==
    [][(TickStep /\ last'.hist # -1) =>
          /\ Len(since_reset) = 3
          /\ points = since_reset
          /\ CurvesOf(pixmap'.img, since_reset)]_vars

\* a computation has run on 3 points collected after a reset
C9_Witness ==
    /\ reset_seen
    /\ last = Ended("update_frame", "return", 3)
    /\ Len(since_reset) = 3

\* C10: a tick with the grabber not streaming, with no frame, or with an array
\* that is not 3-dimensional returns without raising and leaves the points,
\* the displayed image and the three curves unchanged.
C10_NothingToDoIsNoError ==
    [][/\ \A f \in Frames \cup {None} :
             ((~is_streaming \/ f = None \/ f.ndim # 3) /\ CameraApp_update_frame(f))
                => (last'.exit # "raise" /\ points' = points /\ pixmap' = pixmap
                      /\ curves' = curves)
       /\ ((~is_streaming \/ outq = <<>> \/ Head(outq).ndim # 3)
             /\ MainWindow_update_frame)
                => (last'.exit # "raise" /\ points' = points /\ pixmap' = pixmap
                      /\ curves' = curves)]_vars

-----------------------------------------------------------------------------
(* Properties of update_histogram, under HistSpec *)

\* update_histogram has run on the state's frame and points and returned
Computed == last = Ended("update_frame", "return", 3)

\* the call has not run yet
BeforeCall == last = Ended("update_frame", "call", -1)

RECURSIVE SumBins(_, _, _)
\* the sum of the bins lo..hi (1-based) of the histogram h
SumBins(h, lo, hi) ==
    IF lo > hi THEN 0
    ELSE IF lo = hi THEN h[lo]
    ELSE SumBins(h, lo, (lo + hi) \div 2) + SumBins(h, ((lo + hi) \div 2) + 1, hi)

\* the pixels the neighbourhood of pt contributes, by the closed formula
NeighbourhoodPixels(img, pt) ==
    LET dy == Min(img.h, pt.y + 5) - Max(0, pt.y - 5)
        dx == Min(img.w, pt.x + 5) - Max(0, pt.x - 5)
    IN IF dy > 0 /\ dx > 0 THEN dy * dx ELSE 0

PooledPixels(img, pts) ==
    NeighbourhoodPixels(img, pts[1]) + NeighbourhoodPixels(img, pts[2])
        + NeighbourhoodPixels(img, pts[3])

\* C5: for each channel the 256 bins sum to the number of pixels pooled from
\* the three neighbourhoods, each neighbourhood contributing
\* (min(H, y+5) - max(0, y-5)) * (min(W, x+5) - max(0, x-5)) pixels when both
\* factors are positive and none otherwise, overlaps counted once per point.
C5_BinsSumToPooledPixels ==
    \/ BeforeCall
    \/ /\ Computed
       /\ \A h \in {curve_r, curve_g, curve_b} :
             /\ Len(h) = NBins
             /\ SumBins(h, 1, NBins) = PooledPixels(HistArg, points)

\* histograms of a point given twice next to a neighbourhood cut by the far edge
C5_Witness ==
    /\ Computed
    /\ points[1] = points[2]
    /\ points[3] = Pt(HistW + 2, 3)
    /\ HistArg.h = HistH
    /\ SumBins(curve_r, 1, NBins) = 2 * NeighbourhoodPixels(HistArg, points[1]) + 24

\* one value counted into the bin of its own intensity
CountExact(h, v) == [h EXCEPT ![v + 1] = @ + 1]

RECURSIVE ExactAcc(_, _, _, _)
ExactAcc(a, lo, hi, h) ==
    IF lo > hi THEN h
    ELSE IF lo = hi THEN CountExact(h, a[lo])
    ELSE LET mid == (lo + hi) \div 2
         IN CHOOSE res \in {ExactAcc(a, mid + 1, hi, left) :
                               left \in {ExactAcc(a, lo, mid, h)}} : TRUE

\* bin i (at index i+1) holds the number of values of a equal to i, i in 0..255
ExactHistogram(a) ==
    CHOOSE res \in {ExactAcc(v, 1, Len(v), [i \in 1..256 |-> 0]) : v \in {a}} : TRUE

\* C6: with 256 bins over [0, 255], bin i of each channel's histogram counts
\* exactly the pooled pixels of intensity i, for i in 0..255: no two
\* intensities share a bin and none is left out.
C6_BinIsIntensity ==
    \/ BeforeCall
    \/ /\ Computed
       /\ curve_r = ExactHistogram(Chan(HistArg, points, 0))
       /\ curve_g = ExactHistogram(Chan(HistArg, points, 1))
       /\ curve_b = ExactHistogram(Chan(HistArg, points, 2))

\* the pooled pixels hold both ends of the range, 0 and 255, and 254
C6_Witness ==
    /\ Computed
    /\ curve_r[1] > 0
    /\ curve_r[256] > 0
    /\ \E h \in {curve_r, curve_g, curve_b} : h[255] > 0

\* the neighbourhood of pt as specified: rows [max(0, y-5), y+5) and
\* columns [max(0, x-5), x+5), cut to the frame
SpecifiedRegion(img, pt) ==
    [rows |-> {r \in 0..(img.h - 1) : Max(0, pt.y - 5) <= r /\ r < pt.y + 5},
     cols |-> {c \in 0..(img.w - 1) : Max(0, pt.x - 5) <= c /\ c < pt.x + 5}]

\* C7: for every point with non-negative coordinates, on or past the far edge
\* included, the neighbourhood is rows [max(0, y-5), y+5) and columns
\* [max(0, x-5), x+5) cut to the frame, possibly no pixel at all, and the
\* computation does not fault.
C7_FarEdgeTruncates ==
    /\ last.exit # "raise"
    /\ \A i \in 1..Len(points) :
          /\ points[i].x >= 0 /\ points[i].y >= 0
          /\ Region(HistArg, points[i]) = SpecifiedRegion(HistArg, points[i])
    /\ Computed =>
          \A c \in 0..2 :
             Len(Chan(HistArg, points, c))
                = Cardinality(SpecifiedRegion(HistArg, points[1]).rows)
                    * Cardinality(SpecifiedRegion(HistArg, points[1]).cols)
                  + Cardinality(SpecifiedRegion(HistArg, points[2]).rows)
                    * Cardinality(SpecifiedRegion(HistArg, points[2]).cols)
                  + Cardinality(SpecifiedRegion(HistArg, points[3]).rows)
                    * Cardinality(SpecifiedRegion(HistArg, points[3]).cols)

\* a computation returned with one point far below the frame (no pixel), one
\* on the corner past the last pixel and one inside
C7_Witness ==
    /\ Computed
    /\ points = <<Pt(2, HistH + 5), Pt(HistW, HistH), Pt(6, 5)>>
    /\ HistArg.h = HistH
    /\ Region(HistArg, points[1]).rows = {}
    /\ SumBins(curve_g, 1, NBins) = 25 + 100

\* the orders in which three clicked points can have been clicked
Orders(pts) ==
    {<<pts[p[1]], pts[p[2]], pts[p[3]]>> :
        p \in {q \in [1..3 -> 1..3] : {q[1], q[2], q[3]} = {1, 2, 3}}}

\* C8: for a fixed frame the three histograms are the same for every order in
\* which the three points were clicked, and the red curve holds channel 0,
\* the green curve channel 1 and the blue curve channel 2.
C8_OrderOfClicksIrrelevant ==
    \/ BeforeCall
    \/ /\ Computed
       /\ \A o \in Orders(points) :
             /\ curve_r = Histogram(Chan(HistArg, o, 0))
             /\ curve_g = Histogram(Chan(HistArg, o, 1))
             /\ curve_b = Histogram(Chan(HistArg, o, 2))

\* histograms of three different points with different neighbourhoods
C8_Witness ==
    /\ Computed
    /\ Cardinality(Orders(points)) = 6
    /\ Cardinality({Region(HistArg, points[i]) : i \in 1..3}) = 3
    /\ curve_r # curve_g
    /\ curve_g # curve_b

-----------------------------------------------------------------------------
(* MainWindow's sink and the two callbacks that use it *)

\* C11: every piece of state shared between callbacks has one writing
\* context: no attribute of MainWindow is assigned both by the listener's
\* frames_queued and by the timer's update_frame, and the two do not both pop
\* output buffers from the same sink.
C11_OneWritingContext ==
    /\ Cardinality(writers) <= 1
    /\ Cardinality(poppers) <= 1

-----------------------------------------------------------------------------
(* What a tick reads and what it writes *)

\* the array a tick worked on is the frame it was given, value for value
FrameKept ==
    /\ \A frame \in Frames :
          (CameraApp_update_frame(frame) /\ last'.exit \in {"return", "raise"})
             => pixmap'.img = frame
    /\ (MainWindow_update_frame /\ is_streaming /\ outq # <<>>)
          => curr_image_array' = Head(outq)

\* C12: a tick (update_frame with its call of update_histogram) only reads the
\* point collection and the frame: after every tick the collection holds the
\* same points in the same order and the frame's pixel values are the ones it
\* was given; only clicks and resets change the collection.
C12_TickOnlyReads ==
    [][/\ TickStep => (points' = points /\ FrameKept)
       /\ points' # points =>
             ((\E pt \in ClickPoints : ClickStep(pt)) \/ reset_click)]_vars

\* a tick drew three markers and computed the histograms, and the three points
\* are still the three that were clicked
C12_Witness ==
    /\ last = Ended("update_frame", "return", 3)
    /\ Len(points) = 3
    /\ points = since_reset
    /\ pixmap.marks = points
    /\ pixmap.img \in Frames3D
    /\ curve_b # NoData

-----------------------------------------------------------------------------
(* Buffers out of circulation *)

\* a handler of MainWindow that pops output buffers has run
PoppingHandlerStep == MainWindow_update_frame \/ frames_queued

\* C13: every output buffer a handler of MainWindow takes from the sink with
\* pop_output_buffer is released back before that handler returns, on every
\* path (update_frame on a 3-dimensional frame and on any other, and the
\* listener's frames_queued): no handler leaves more buffers out of
\* circulation than it found.
C13_PoppedBufferReleased ==
    [][PoppingHandlerStep => held' <= held]_vars

-----------------------------------------------------------------------------
(* The ColorCollector window: get_colors_at_cursor and select_color *)

\* the grabbed screen image is ScreenSide + 1 pixels high and ScreenSide + 4 wide
ScreenSide == 20

\* get_colors_at_cursor calls followed while colors is not emptied
MaxCalls == 2

\* range(pos.y() - 10, pos.y() + 10): how far the block reaches from the cursor
Reach == 10

ScreenH == ScreenSide + 1

ScreenW == ScreenSide + 4

\* what ImageGrab.grab returns: an RGB image, px[x][y] the pixel at (x, y)
MkScreen(seed) ==
    [w |-> ScreenW, h |-> ScreenH,
     px |-> [x \in 0..(ScreenW - 1) |-> [y \in 0..(ScreenH - 1) |->
                << (seed + 9 * x + 2 * y) % 256,
                   (40 + 5 * x + 11 * y) % 256,
                   255 - ((3 * x + 7 * y) % 256) >>]]]

Screens == {MkScreen(17)}

\* the position used when no global_pos is given
DefaultPos == Pt(10, 10)

\* the global_pos arguments: none, a cursor well inside the image, and a cursor
\* 3 pixels from its right edge; all at least Reach from the left and top edges
CursorPositions == {None, Pt(12, 11), Pt(ScreenW - 3, 10)}

\* side of the block the two loops walk over, and its number of pixels
BlockSide == (Reach + Reach)

BlockSize == BlockSide * BlockSide

\* the k-th coordinate the loops visit (k from 1): y outside, x inside
Visited(pos, k) ==
    Pt((pos.x - Reach) + ((k - 1) % BlockSide), (pos.y - Reach) + ((k - 1) \div BlockSide))

\* image.getpixel raises IndexError for a coordinate past the image's far edges
Outside(image, c) == c.x >= image.w \/ c.y >= image.h

\* how many samples the loops append: all of the block, or those before the
\* first getpixel that raises
Appended(image, pos) ==
    LET bad == {k \in 1..BlockSize : Outside(image, Visited(pos, k))}
    IN  IF bad = {} THEN BlockSize ELSE SetMin(bad) - 1

\* ColorCollector.get_colors_at_cursor(global_pos), image being the screen grabbed
get_colors_at_cursor(image, global_pos) ==
    /\ app = "ColorCollector"
    /\ calls < MaxCalls
    /\ LET pos == IF global_pos = None THEN DefaultPos ELSE global_pos
           n == Appended(image, pos)
       IN  /\ colors' = colors \o [k \in 1..n |->
                                     image.px[Visited(pos, k).x][Visited(pos, k).y]]
           /\ last' = Ended("get_colors_at_cursor",
                            IF n = BlockSize THEN "return" ELSE "raise", -1)
    /\ calls' = calls + 1
    /\ UNCHANGED <<app, labels, viewer>>

RECURSIVE SumSquares(_, _, _, _)
\* the loop "for color in self.colors: red += np.square(color[0])" over the
\* samples cs[lo..hi], for the channel c (0, 1 or 2)
SumSquares(cs, c, lo, hi) ==
    IF lo > hi THEN 0
    ELSE IF lo = hi THEN cs[lo][c + 1] * cs[lo][c + 1]
    ELSE SumSquares(cs, c, lo, (lo + hi) \div 2)
            + SumSquares(cs, c, ((lo + hi) \div 2) + 1, hi)

\* int(np.sqrt(q)) for q >= 0
IntSqrt(q) == CHOOSE r \in 0..q : r * r <= q /\ q < (r + 1) * (r + 1)

\* int(np.sqrt(red / len(self.colors))): the root of the mean of the squares
RootMeanSquare(cs, c) == IntSqrt(SumSquares(cs, c, 1, Len(cs)) \div Len(cs))

\* ColorCollector.select_color(label), reached from the three buttons
select_color(label) ==
    /\ app = "ColorCollector"
    /\ IF Len(colors) = 0
       THEN /\ last' = Ended("select_color", "no_colors", -1)
            /\ UNCHANGED <<colors, labels, calls>>
       ELSE /\ labels' = [labels EXCEPT ![label] =
                             Selected(RootMeanSquare(colors, 0),
                                      RootMeanSquare(colors, 1),
                                      RootMeanSquare(colors, 2))]
            /\ colors' = <<>>
            /\ calls' = 0
            /\ last' = Ended("select_color", "return", -1)
    /\ UNCHANGED <<app, viewer>>

ColorInit ==
    /\ app = "ColorCollector"
    /\ points = <<>>
    /\ is_streaming = FALSE
    /\ curve_r = NoData
    /\ curve_g = NoData
    /\ curve_b = NoData
    /\ pixmap = NoPixmap
    /\ curr_image_array = None
    /\ outq = <<>>
    /\ pending = 0
    /\ writers = {}
    /\ poppers = {}
    /\ held = 0
    /\ colors = <<>>
    /\ labels = NoLabels
    /\ calls = 0
    /\ since_reset = <<>>
    /\ reset_seen = FALSE
    /\ last = Ended("__init__", "return", -1)

ColorNext ==
    \/ \E image \in Screens : \E global_pos \in CursorPositions :
          get_colors_at_cursor(image, global_pos)
    \/ \E label \in Labels : select_color(label)

ColorSpec == ColorInit /\ [][ColorNext]_vars

\* a call of get_colors_at_cursor
GetColorsStep ==
    \E image \in Screens : \E global_pos \in CursorPositions :
        get_colors_at_cursor(image, global_pos)

\* what the claim says of select_color(label)
SelectUpdatesAndEmpties(label) ==
    IF colors # <<>>
    THEN /\ labels'[label] = Selected(RootMeanSquare(colors, 0),
                                      RootMeanSquare(colors, 1),
                                      RootMeanSquare(colors, 2))
         /\ \A other \in Labels \ {label} : labels'[other] = labels[other]
         /\ colors' = <<>>
    ELSE /\ labels' = labels
         /\ colors' = colors

\* what the claim says of get_colors_at_cursor: BlockSize (400) samples more,
\* the earlier ones kept
GetAppendsBlock ==
    /\ Len(colors') = Len(colors) + BlockSize
    /\ SubSeq(colors', 1, Len(colors)) = colors

\* C14: a select_color call with a non-empty sample list sets the given label
\* from all the samples collected since the list was last emptied and leaves
\* the list empty; with an empty list it changes neither the label nor the
\* list; each get_colors_at_cursor call appends exactly 400 samples (a 20x20
\* block) and removes none.
C14_CollectThenSelect ==
    [][/\ \A label \in Labels : select_color(label) => SelectUpdatesAndEmpties(label)
       /\ GetColorsStep => GetAppendsBlock]_vars

====
